---- MODULE Spec2Model ----
(***************************************************************************)
(* Model of fdi_process.py: Category Parser, Hierarchy Builder, Constraint *)
(* Fill Engine and Top-Down Mean Imputer.                                  *)
(*                                                                         *)
(* Text is a sequence of one-character strings.  Numeric cells are exact   *)
(* rationals n/d (d > 0, lowest terms); Python's "/" is exact division.    *)
(* Row indices are 0-based as in the script.  Python's None is NoneIdx for *)
(* an index, the empty text for a code and NoRange for a special range.    *)
(***************************************************************************)
EXTENDS Integers, Sequences, FiniteSets, TLC

\* ------------------------------------------------------------------ bounds
NRows == 3
MaxVal == 2
MaxTokens == 4
MaxInvRows == 4

\* --------------------------------------------------------------- constants
max_iterations == 50

NoneIdx == -1
NoCode == <<>>
NoRange == [none |-> TRUE, codes |-> {}]
SomeRange(S) == [none |-> FALSE, codes |-> S]

\* ------------------------------------------------------------ text helpers
Digits == {"0", "1", "2", "3", "4", "5", "6", "7", "8", "9"}
WS == {" ", "\t", "\n"}

DigitVal(c) ==
  CASE c = "0" -> 0 [] c = "1" -> 1 [] c = "2" -> 2 [] c = "3" -> 3
    [] c = "4" -> 4 [] c = "5" -> 5 [] c = "6" -> 6 [] c = "7" -> 7
    [] c = "8" -> 8 [] c = "9" -> 9

DigitChar(n) ==
  CASE n = 0 -> "0" [] n = 1 -> "1" [] n = 2 -> "2" [] n = 3 -> "3"
    [] n = 4 -> "4" [] n = 5 -> "5" [] n = 6 -> "6" [] n = 7 -> "7"
    [] n = 8 -> "8" [] n = 9 -> "9"

\* str.upper() on one character
UpperChar(c) ==
  CASE c = "a" -> "A" [] c = "b" -> "B" [] c = "c" -> "C" [] c = "d" -> "D"
    [] c = "e" -> "E" [] c = "f" -> "F" [] c = "g" -> "G" [] c = "h" -> "H"
    [] c = "i" -> "I" [] c = "j" -> "J" [] c = "k" -> "K" [] c = "l" -> "L"
    [] c = "m" -> "M" [] c = "n" -> "N" [] c = "o" -> "O" [] c = "p" -> "P"
    [] c = "q" -> "Q" [] c = "r" -> "R" [] c = "s" -> "S" [] c = "t" -> "T"
    [] c = "u" -> "U" [] c = "v" -> "V" [] c = "w" -> "W" [] c = "x" -> "X"
    [] c = "y" -> "Y" [] c = "z" -> "Z" [] OTHER -> c

UpperNone(s) == s
Upper(s) == [k \in 1..Len(s) |-> UpperChar(s[k])]

\* str.strip(): drop leading and trailing whitespace
FirstNonWS(s) ==
  IF \E k \in 1..Len(s) : s[k] \notin WS
  THEN CHOOSE k \in 1..Len(s) : s[k] \notin WS /\ \A j \in 1..(k-1) : s[j] \in WS
  ELSE Len(s) + 1

LastNonWS(s) ==
  IF \E k \in 1..Len(s) : s[k] \notin WS
  THEN CHOOSE k \in 1..Len(s) : s[k] \notin WS /\ \A j \in (k+1)..Len(s) : s[j] \in WS
  ELSE 0

Strip(s) == SubSeq(s, FirstNonWS(s), LastNonWS(s))

\* re.search(r'\d', s)
HasDigit(s) == \E k \in 1..Len(s) : s[k] \in Digits

\* length of the match of ^(\d+), 0 when there is none
DigitRunLen(s) ==
  IF \E k \in 1..Len(s) : s[k] \notin Digits
  THEN (CHOOSE k \in 1..Len(s) : s[k] \notin Digits /\ \A j \in 1..(k-1) : s[j] \in Digits) - 1
  ELSE Len(s)

\* position reached by \s* started at position k
SkipWS(s, k) ==
  IF \E j \in k..Len(s) : s[j] \notin WS
  THEN CHOOSE j \in k..Len(s) : s[j] \notin WS /\ \A h \in k..(j-1) : s[h] \in WS
  ELSE Len(s) + 1

\* re.match(r'^(\d{2})\s*SEP\s*(\d{2})', s) for a one-character separator set;
\* the result carries the two groups
MatchPair(s, seps) ==
  IF Len(s) >= 2 /\ s[1] \in Digits /\ s[2] \in Digits
  THEN LET j == SkipWS(s, 3) IN
       IF j <= Len(s) /\ s[j] \in seps
       THEN LET k == SkipWS(s, j + 1) IN
            IF k + 1 <= Len(s) /\ s[k] \in Digits /\ s[k+1] \in Digits
            THEN [ok |-> TRUE, g1 |-> SubSeq(s, 1, 2), g2 |-> SubSeq(s, k, k + 1)]
            ELSE [ok |-> FALSE, g1 |-> <<>>, g2 |-> <<>>]
       ELSE [ok |-> FALSE, g1 |-> <<>>, g2 |-> <<>>]
  ELSE [ok |-> FALSE, g1 |-> <<>>, g2 |-> <<>>]

\* int() of a two-digit text and f"{num:02d}"
Int2(t) == 10 * DigitVal(t[1]) + DigitVal(t[2])
Fmt02d(n) == <<DigitChar(n \div 10), DigitChar(n % 10)>>

\* str.startswith
StartsWith(s, p) == Len(p) <= Len(s) /\ SubSeq(s, 1, Len(p)) = p

\* s[:n]
Prefix(s, n) == SubSeq(s, 1, IF n < Len(s) THEN n ELSE Len(s))

\* {f"{num:02d}" for num in range(start, end + 1)}
RangeCodesExclusive(start, end) == {Fmt02d(num) : num \in start..(end - 1)}
RangeCodes(start, end) == {Fmt02d(num) : num \in start..end}

\* ---------------------------------------------------------- parse_category
parse_category_shifted(raw) ==
  LET cat_str == Strip(raw)
      m_hyphen == MatchPair(cat_str, {"-"})
      m_y == MatchPair(cat_str, {"y", "Y"})
      L == DigitRunLen(cat_str)
  IN  IF Upper(cat_str) = <<"T", "O", "T", "A", "L">>
        THEN [level |-> -1, code |-> NoCode, special_range |-> NoRange]
      ELSE IF ~HasDigit(cat_str)
        THEN [level |-> 0, code |-> NoCode, special_range |-> NoRange]
      ELSE IF m_hyphen.ok
        THEN [level |-> 2, code |-> NoCode,
              special_range |-> SomeRange(RangeCodes(Int2(m_hyphen.g1), Int2(m_hyphen.g2)))]
      ELSE IF m_y.ok
        THEN [level |-> 2, code |-> NoCode, special_range |-> SomeRange({m_y.g1, m_y.g2})]
      ELSE IF L = 3
        THEN [level |-> 2, code |-> SubSeq(cat_str, 1, L), special_range |-> NoRange]
      ELSE IF L = 4
        THEN [level |-> 3, code |-> SubSeq(cat_str, 1, L), special_range |-> NoRange]
      ELSE IF L >= 5
        THEN [level |-> 4, code |-> SubSeq(cat_str, 1, 4), special_range |-> NoRange]
      ELSE [level |-> 0, code |-> NoCode, special_range |-> NoRange]

parse_category(raw) ==
  LET cat_str == Strip(raw)
      m_hyphen == MatchPair(cat_str, {"-"})
      m_y == MatchPair(cat_str, {"y", "Y"})
      L == DigitRunLen(cat_str)
  IN  IF Upper(cat_str) = <<"T", "O", "T", "A", "L">>
        THEN [level |-> -1, code |-> NoCode, special_range |-> NoRange]
      ELSE IF ~HasDigit(cat_str)
        THEN [level |-> 0, code |-> NoCode, special_range |-> NoRange]
      ELSE IF m_hyphen.ok
        THEN [level |-> 2, code |-> NoCode,
              special_range |-> SomeRange(RangeCodes(Int2(m_hyphen.g1), Int2(m_hyphen.g2)))]
      ELSE IF m_y.ok
        THEN [level |-> 2, code |-> NoCode, special_range |-> SomeRange({m_y.g1, m_y.g2})]
      ELSE IF L = 2
        THEN [level |-> 2, code |-> SubSeq(cat_str, 1, L), special_range |-> NoRange]
      ELSE IF L = 3
        THEN [level |-> 3, code |-> SubSeq(cat_str, 1, L), special_range |-> NoRange]
      ELSE IF L >= 4
        THEN [level |-> 4, code |-> SubSeq(cat_str, 1, 4), special_range |-> NoRange]
      ELSE [level |-> 0, code |-> NoCode, special_range |-> NoRange]

\* ------------------------------------------------------------------- cells
NaN == [t |-> "nan", s |-> <<>>, n |-> 0, d |-> 1]
Txt(s) == [t |-> "str", s |-> s, n |-> 0, d |-> 1]
RECURSIVE Gcd(_, _)
Gcd(a, b) == IF b = 0 THEN a ELSE Gcd(b, a % b)
Abs(a) == IF a < 0 THEN -a ELSE a
Rat(n, d) == LET g == Gcd(Abs(n), d) IN [t |-> "num", s |-> <<>>, n |-> n \div g, d |-> d \div g]
Num(k) == Rat(k, 1)

\* cell arithmetic: +, -, and true division by a positive count
Add(a, b) == Rat(a.n * b.d + b.n * a.d, a.d * b.d)
Sub(a, b) == Rat(a.n * b.d - b.n * a.d, a.d * b.d)
DivBy(a, k) == Rat(a.n, a.d * k)

\* (isinstance(val, str) and val.strip().upper() == "C") or pd.isna(val)
IsMissing(val) ==
  \/ val.t = "str" /\ Upper(Strip(val.s)) = <<"C">>
  \/ val.t = "nan"

\* ------------------------------------------------------------ input tables
\* Labels of the "Category" column
L_Total == <<"T", "o", "t", "a", "l", " ">>
L_TOTAL == <<"T", "O", "T", "A", "L">>
L_Mex == <<"M", "e", "x">>
L_3133 == <<"3", "1", "-", "3", "3", " ", "I">>
L_33 == <<"3", "3", " ", "X">>
L_43y46 == <<"4", "3", " ", "y", " ", "4", "6">>
L_3331 == <<"3", "3", "-", "3", "1", " ", "Z">>
L_334 == <<"3", "3", "4", " ", "C">>
L_3341 == <<"3", "3", "4", "1", " ", "F">>
L_461 == <<"4", "6", "1", " ", "M">>
L_10 == <<"1", "0", " ", "A", "g", "r">>
L_20 == <<"2", "0", " ", "I", "n", "d">>
L_30 == <<"3", "0", " ", "S", "e", "r">>
L_USA == <<"U", "S", "A">>
L_Agr == <<"A", "g", "r">>
L_Ind == <<"I", "n", "d">>
L_Ser == <<"S", "e", "r">>

HierLabels == {L_Total, L_Mex, L_3133, L_3331, L_43y46, L_33, L_334, L_3341, L_461}
FillLabels == {L_Total, L_Mex, L_33, L_334}
WideLabels == {L_Total, L_Mex, L_33}
DeepLabels == {L_Total, L_Mex, L_33}
BlockLabels == {L_Mex, L_USA, L_33, L_334}

\* the redacted marker as it appears in the sheet, and an absent cell
Redacted == Txt(<<"c", " ">>)
HierCells == {NaN, Num(1)}
FillCells == {NaN, Redacted} \cup {Num(k) : k \in 1..MaxVal}
WideCells == {NaN, Num(1), Num(2)}
DeepCells == {NaN} \cup {Num(k) : k \in 1..MaxVal}

Col1 == "2019"
Col2 == "2020"
OneCol(v) == (Col1 :> v)
TwoCols(v, w) == (Col1 :> v) @@ (Col2 :> w)

\* a table: the column names and, per row, the label and the cells
MkTable(cols, labels, vals) ==
  [columns |-> <<"Category">> \o cols,
   data |-> [r \in 0..(Len(labels) - 1) |-> [Category |-> labels[r + 1], values |-> vals[r + 1]]]]

OneColRows(cs) == [r \in DOMAIN cs |-> OneCol(cs[r])]
TwoColRows(cs, ds) == [r \in DOMAIN cs |-> TwoCols(cs[r], ds[r])]

\* the families of input tables: t is a table of the family
IsHierTable(t) ==
  \E ls \in [1..NRows -> HierLabels], cs \in [1..NRows -> HierCells] :
    t = MkTable(<<Col1>>, ls, OneColRows(cs))
IsFillTable(t) ==
  \E ls \in [1..NRows -> FillLabels], cs \in [1..NRows -> FillCells] :
    t = MkTable(<<Col1>>, ls, OneColRows(cs))
IsDeepTable(t) ==
  \E ls \in [1..(NRows + 1) -> DeepLabels], cs \in [1..(NRows + 1) -> DeepCells] :
    t = MkTable(<<Col1>>, ls, OneColRows(cs))
IsWideTable(t) ==
  \E ls \in [1..(NRows - 1) -> WideLabels],
     cs \in [1..(NRows - 1) -> WideCells], ds \in [1..(NRows - 1) -> WideCells] :
    t = MkTable(<<Col1, Col2>>, ls, TwoColRows(cs, ds))

\* filled tables of several country blocks, as reformat.py reads them
IsBlockTable(t) ==
  \E ls \in [1..(NRows + 1) -> BlockLabels] :
    t = MkTable(<<Col1>>, ls, [r \in 1..(NRows + 1) |-> OneCol(Num(1))])

\* the end-to-end scenario of the specification, and the same values under
\* labels without a leading code
ScenarioCoded ==
  MkTable(<<Col1>>, <<L_TOTAL, L_10, L_20, L_30>>,
          <<OneCol(Num(1000)), OneCol(NaN), OneCol(Num(400)), OneCol(NaN)>>)
ScenarioPlain ==
  MkTable(<<Col1>>, <<L_TOTAL, L_Agr, L_Ind, L_Ser>>,
          <<OneCol(Num(1000)), OneCol(NaN), OneCol(Num(400)), OneCol(Redacted)>>)

\* labels for the parser alone: up to MaxTokens tokens put one after the other
Tokens == {<<"T", "O", "T", "A", "L">>, <<"t", "o", "T", "a", "l">>, <<" ">>, <<"3">>, <<"1">>,
           <<"3", "3">>, <<"3", "1">>, <<"-">>, <<"y">>, <<"Y">>, <<"x">>}
RECURSIVE Concat(_)
Concat(ts) == IF ts = <<>> THEN <<>> ELSE Head(ts) \o Concat(Tail(ts))
IsParseTable(t) ==
  \E n \in 0..MaxTokens : \E ts \in [1..n -> Tokens] :
    t = MkTable(<<Col1>>, <<Concat(ts)>>, <<OneCol(NaN)>>)

IsTable(t) ==
  \/ IsHierTable(t) \/ IsFillTable(t) \/ IsDeepTable(t) \/ IsWideTable(t)
  \/ t \in {ScenarioCoded, ScenarioPlain}

\* ------------------------------------------------------------------- state
VARIABLES df, rows, last_seen, children_map, i, value_cols,
          missing_initial, total_fillable_cells,
          iteration_count, cells_filled_so_far, log_entries,
          changed_any, cur, child_cells_used, imp, missing_final, pc, run,
          out_records, rows_list, country_name, block_data, final_records

vars == <<df, rows, last_seen, children_map, i, value_cols,
          missing_initial, total_fillable_cells,
          iteration_count, cells_filled_so_far, log_entries,
          changed_any, cur, child_cells_used, imp, missing_final, pc, run,
          out_records, rows_list, country_name, block_data, final_records>>

EmptyMap == [x \in {} |-> <<>>]
Unbound == [def |-> FALSE, cells |-> <<>>]
Bound(cells) == [def |-> TRUE, cells |-> cells]

NumRows == Cardinality(DOMAIN df.data)

\* everything but the input table
InitState(start) ==
  /\ rows = EmptyMap
  /\ last_seen = EmptyMap
  /\ children_map = EmptyMap
  /\ i = 0
  /\ value_cols = <<>>
  /\ missing_initial = 0
  /\ total_fillable_cells = 0
  /\ iteration_count = 0
  /\ cells_filled_so_far = 0
  /\ log_entries = <<>>
  /\ changed_any = FALSE
  /\ cur = [r |-> 0, c |-> 1]
  /\ child_cells_used = Unbound
  /\ imp = [c |-> 1, idx |-> 1]
  /\ missing_final = 0
  /\ pc = start
  /\ run = 1
  /\ out_records = <<>>
  /\ rows_list = <<>>
  /\ country_name = <<>>
  /\ block_data = EmptyMap
  /\ final_records = <<>>

Init == IsTable(df) /\ InitState("build")

\* -------------------------------------------------------- hierarchy builder
\* python truthiness of candidate.get("special_range") and of a code
HasRange(rd) == ~rd.special_range.none /\ rd.special_range.codes # {}
HasCode(code) == code # NoCode

\* the parent the builder loop gives row with (level, code)
BuilderParentPrefixOnly(level, code, ls, rws) ==
  CASE level = 0 -> IF -1 \in DOMAIN ls THEN ls[-1] ELSE NoneIdx
    [] level = 2 -> IF 0 \in DOMAIN ls THEN ls[0] ELSE NoneIdx
    [] level = 3 ->
         IF 2 \in DOMAIN ls
         THEN LET candidate == rws[ls[2]] IN
              IF FALSE
              THEN IF HasCode(code) /\ Prefix(code, 2) \in candidate.special_range.codes
                   THEN ls[2] ELSE NoneIdx
              ELSE IF HasCode(candidate.code) /\ HasCode(code) /\ StartsWith(code, candidate.code)
                   THEN ls[2] ELSE NoneIdx
         ELSE NoneIdx
    [] level = 4 ->
         IF 3 \in DOMAIN ls
         THEN LET candidate == rws[ls[3]] IN
              IF HasCode(candidate.code) /\ HasCode(code) /\ StartsWith(code, candidate.code)
              THEN ls[3] ELSE NoneIdx
         ELSE NoneIdx
    [] OTHER -> NoneIdx

BuilderParent(level, code, ls, rws) ==
  CASE level = 0 -> IF -1 \in DOMAIN ls THEN ls[-1] ELSE NoneIdx
    [] level = 2 -> IF 0 \in DOMAIN ls THEN ls[0] ELSE NoneIdx
    [] level = 3 ->
         IF 2 \in DOMAIN ls
         THEN LET candidate == rws[ls[2]] IN
              IF HasRange(candidate)
              THEN IF HasCode(code) /\ Prefix(code, 2) \in candidate.special_range.codes
                   THEN ls[2] ELSE NoneIdx
              ELSE IF HasCode(candidate.code) /\ HasCode(code) /\ StartsWith(code, candidate.code)
                   THEN ls[2] ELSE NoneIdx
         ELSE NoneIdx
    [] level = 4 ->
         IF 3 \in DOMAIN ls
         THEN LET candidate == rws[ls[3]] IN
              IF HasCode(candidate.code) /\ HasCode(code) /\ StartsWith(code, candidate.code)
              THEN ls[3] ELSE NoneIdx
         ELSE NoneIdx
    [] OTHER -> NoneIdx

\* children_map.setdefault(p, []).append(c)
SetDefaultAppend(cm, p, c) ==
  IF p \in DOMAIN cm THEN [cm EXCEPT ![p] = Append(@, c)] ELSE cm @@ (p :> <<c>>)

\* last_seen[level] = idx
Remember(ls, level, idx) ==
  IF level \in DOMAIN ls THEN [ls EXCEPT ![level] = idx] ELSE ls @@ (level :> idx)

\* one iteration of "for i in range(len(df))", in the script at position
\* here, which goes on at position after when the loop is over
BuildStep(here, after) ==
  /\ pc = here
  /\ i < NumRows
  /\ LET cat_str == df.data[i].Category
         parsed == parse_category(cat_str)
         parent == BuilderParent(parsed.level, parsed.code, last_seen, rows)
         row_dict == [index |-> i,
                      name |-> Strip(cat_str),
                      level |-> parsed.level,
                      code |-> parsed.code,
                      special_range |-> parsed.special_range,
                      parent |-> parent,
                      values |-> df.data[i].values]
     IN /\ rows' = rows @@ (i :> row_dict)
        /\ children_map' = IF parent # NoneIdx THEN SetDefaultAppend(children_map, parent, i)
                           ELSE children_map
        /\ last_seen' = Remember(last_seen, parsed.level, i)
  /\ i' = i + 1
  /\ pc' = IF i + 1 < NumRows THEN here ELSE after
  /\ UNCHANGED <<df, value_cols, missing_initial, total_fillable_cells, iteration_count,
                 cells_filled_so_far, log_entries, changed_any, cur, child_cells_used,
                 imp, missing_final, run, out_records,
                 rows_list, country_name, block_data, final_records>>

BuildRow == BuildStep("build", "count")

\* value_cols, the initial count, and the loop's counters
RECURSIVE DropCategory(_)
DropCategory(cols) ==
  IF cols = <<>> THEN <<>>
  ELSE IF Head(cols) = "Category" THEN DropCategory(Tail(cols))
  ELSE <<Head(cols)>> \o DropCategory(Tail(cols))

CountMissingCells(tab, cols) ==
  Cardinality({x \in (DOMAIN tab) \X (1..Len(cols)) : IsMissing(tab[x[1]].values[cols[x[2]]])})

CountMissing ==
  /\ pc = "count"
  /\ value_cols' = DropCategory(df.columns)
  /\ missing_initial' = CountMissingCells(df.data, DropCategory(df.columns))
  /\ total_fillable_cells' = NumRows * Len(DropCategory(df.columns))
  /\ iteration_count' = 0
  /\ cells_filled_so_far' = 0
  /\ log_entries' = <<>>
  /\ pc' = "round"
  /\ UNCHANGED <<df, rows, last_seen, children_map, i, changed_any, cur, child_cells_used,
                 imp, missing_final, run, out_records,
                 rows_list, country_name, block_data, final_records>>

\* -------------------------------------------------- constraint fill engine
\* f"(row={idx}, col={col}, val={val})"
CellRef(idx, col, val) == [row |-> idx, col |-> col, val |-> val]

\* children_map.get(i, [])
ChildrenOf(cm, idx) == IF idx \in DOMAIN cm THEN cm[idx] ELSE <<>>

\* CASE A's loop over child_idxs: stops at the first missing child
RECURSIVE ChildLoopSkipping(_, _, _, _, _, _)
ChildLoopSkipping(rws, child_idxs, col, k, child_sum, used) ==
  IF k > Len(child_idxs)
  THEN [all_children_known |-> TRUE, child_sum |-> child_sum, child_cells_used |-> used]
  ELSE LET cidx == child_idxs[k]
           cval == rws[cidx].values[col]
       IN IF IsMissing(cval)
          THEN ChildLoopSkipping(rws, child_idxs, col, k + 1, child_sum, used)
          ELSE ChildLoopSkipping(rws, child_idxs, col, k + 1, Add(child_sum, cval),
                                 Append(used, CellRef(cidx, col, cval)))

RECURSIVE ChildLoop(_, _, _, _, _, _)
ChildLoop(rws, child_idxs, col, k, child_sum, used) ==
  IF k > Len(child_idxs)
  THEN [all_children_known |-> TRUE, child_sum |-> child_sum, child_cells_used |-> used]
  ELSE LET cidx == child_idxs[k]
           cval == rws[cidx].values[col]
       IN IF IsMissing(cval)
          THEN [all_children_known |-> FALSE, child_sum |-> child_sum, child_cells_used |-> used]
          ELSE ChildLoop(rws, child_idxs, col, k + 1, Add(child_sum, cval),
                         Append(used, CellRef(cidx, col, cval)))

\* [s for s in children_map[parent_i] if s != i]
SiblingIdxs(cm, parent_i, idx) == SelectSeq(cm[parent_i], LAMBDA s : s # idx)

\* CASE B's loop over sibling_idxs: stops at the first missing sibling
RECURSIVE SiblingLoopSkipping(_, _, _, _, _, _)
SiblingLoopSkipping(rws, sibling_idxs, col, k, sibling_sum, used) ==
  IF k > Len(sibling_idxs)
  THEN [siblings_known |-> TRUE, sibling_sum |-> sibling_sum, sibling_cells_used |-> used]
  ELSE LET sidx == sibling_idxs[k]
           sval == rws[sidx].values[col]
       IN IF IsMissing(sval)
          THEN SiblingLoopSkipping(rws, sibling_idxs, col, k + 1, sibling_sum, used)
          ELSE SiblingLoopSkipping(rws, sibling_idxs, col, k + 1, Add(sibling_sum, sval),
                                   Append(used, CellRef(sidx, col, sval)))

RECURSIVE SiblingLoop(_, _, _, _, _, _)
SiblingLoop(rws, sibling_idxs, col, k, sibling_sum, used) ==
  IF k > Len(sibling_idxs)
  THEN [siblings_known |-> TRUE, sibling_sum |-> sibling_sum, sibling_cells_used |-> used]
  ELSE LET sidx == sibling_idxs[k]
           sval == rws[sidx].values[col]
       IN IF IsMissing(sval)
          THEN [siblings_known |-> FALSE, sibling_sum |-> sibling_sum, sibling_cells_used |-> used]
          ELSE SiblingLoop(rws, sibling_idxs, col, k + 1, Add(sibling_sum, sval),
                           Append(used, CellRef(sidx, col, sval)))

\* the log entry of CASE A
SumEntry(rd, col, used, child_sum) ==
  [filled_row_index |-> rd.index,
   filled_row_name |-> rd.name,
   filled_col_name |-> col,
   method |-> "sum_of_children",
   cells_used |-> used,
   computed_value |-> child_sum]

\* the list CASE B puts under "cells_used"
RuleBCellsUsed(ccu, sibling_cells_used) == ccu

\* the log entry of CASE B
DiffEntry(rd, col, parent_i, parent_val, used, result_val) ==
  [filled_row_index |-> rd.index,
   filled_row_name |-> rd.name,
   filled_col_name |-> col,
   method |-> "parent_minus_siblings",
   parent_cell_used |-> CellRef(parent_i, col, parent_val),
   cells_used |-> used,
   computed_value |-> result_val]

\* value CASE B writes
RuleBValueNoSiblings(parent_val, sibling_sum) == parent_val
RuleBValue(parent_val, sibling_sum) == Sub(parent_val, sibling_sum)

\* "while True:" header of one round
RoundStart ==
  /\ pc = "round"
  /\ iteration_count' = iteration_count + 1
  /\ changed_any' = FALSE
  /\ cur' = [r |-> 0, c |-> 1]
  /\ pc' = "visit"
  /\ UNCHANGED <<df, rows, last_seen, children_map, i, value_cols, missing_initial,
                 total_fillable_cells, cells_filled_so_far, log_entries, child_cells_used,
                 imp, missing_final, run, out_records,
                 rows_list, country_name, block_data, final_records>>

\* the cursor after the body of "for col in value_cols" has run for cur
NextCur == IF cur.c < Len(value_cols) THEN [r |-> cur.r, c |-> cur.c + 1]
           ELSE [r |-> cur.r + 1, c |-> 1]
NextPc == IF cur.c < Len(value_cols) \/ cur.r + 1 < NumRows THEN "visit" ELSE "round_end"

\* "if child_idxs:" -- CASE A is entered only for a row with children
TriesRuleAAlways(child_idxs) == TRUE
TriesRuleA(child_idxs) == child_idxs # <<>>

\* which case fills the cell: CASE A ends with "continue", CASE B comes after it
FillRuleBFirst(a_applies, b_applies) ==
  IF b_applies THEN "B" ELSE IF a_applies THEN "A" ELSE "none"
FillRule(a_applies, b_applies) ==
  IF a_applies THEN "A" ELSE IF b_applies THEN "B" ELSE "none"

\* body of the two nested for-loops for one (row, column)
VisitCell ==
  /\ pc = "visit"
  /\ LET rd == rows[cur.r]
         idx == rd.index
         parent_i == rd.parent
         child_idxs == ChildrenOf(children_map, idx)
         col == value_cols[cur.c]
         val == rd.values[col]
         a == ChildLoop(rows, child_idxs, col, 1, Num(0), <<>>)
         triedA == TriesRuleA(child_idxs)
         ccu == IF triedA THEN Bound(a.child_cells_used) ELSE child_cells_used
         parent_val == rows[parent_i].values[col]
         b == SiblingLoop(rows, SiblingIdxs(children_map, parent_i, idx), col, 1, Num(0), <<>>)
         result_val == RuleBValue(parent_val, b.sibling_sum)
         rule == FillRule(triedA /\ a.all_children_known,
                          parent_i # NoneIdx /\ ~IsMissing(parent_val) /\ b.siblings_known)
     IN IF ~IsMissing(val)
        THEN /\ pc' = NextPc
             /\ UNCHANGED <<rows, changed_any, cells_filled_so_far, log_entries, child_cells_used>>
        ELSE IF rule = "A"
        THEN /\ rows' = [rows EXCEPT ![idx].values[col] = a.child_sum]
             /\ changed_any' = TRUE
             /\ cells_filled_so_far' = cells_filled_so_far + 1
             /\ log_entries' = Append(log_entries, SumEntry(rd, col, a.child_cells_used, a.child_sum))
             /\ child_cells_used' = ccu
             /\ pc' = NextPc
        ELSE IF rule = "B"
        THEN /\ rows' = [rows EXCEPT ![idx].values[col] = result_val]
             /\ changed_any' = TRUE
             /\ cells_filled_so_far' = cells_filled_so_far + 1
             /\ child_cells_used' = ccu
             /\ IF ccu.def
                THEN /\ log_entries' = Append(log_entries,
                          DiffEntry(rd, col, parent_i, parent_val,
                                    RuleBCellsUsed(ccu.cells, b.sibling_cells_used), result_val))
                     /\ pc' = NextPc
                ELSE \* NameError: name 'child_cells_used' is not defined
                     /\ log_entries' = log_entries
                     /\ pc' = "aborted"
        ELSE /\ child_cells_used' = ccu
             /\ pc' = NextPc
             /\ UNCHANGED <<rows, changed_any, cells_filled_so_far, log_entries>>
  /\ cur' = IF pc' = "visit" THEN NextCur ELSE cur
  /\ UNCHANGED <<df, last_seen, children_map, i, value_cols, missing_initial,
                 total_fillable_cells, iteration_count, imp, missing_final, run, out_records,
                 rows_list, country_name, block_data, final_records>>

\* "if not changed_any or iteration_count >= max_iterations: break"
LoopExitsAfterOneRound(changed, count) == ~changed \/ count >= 1
LoopExits(changed, count) == ~changed \/ count >= max_iterations

RoundEnd ==
  /\ pc = "round_end"
  /\ pc' = IF LoopExits(changed_any, iteration_count) THEN "attach" ELSE "round"
  /\ UNCHANGED <<df, rows, last_seen, children_map, i, value_cols, missing_initial,
                 total_fillable_cells, iteration_count, cells_filled_so_far, log_entries,
                 changed_any, cur, child_cells_used, imp, missing_final, run, out_records,
                 rows_list, country_name, block_data, final_records>>

\* ------------------------------------------- retroactive attach to TOTAL
\* "for rd in rows": the row indices in list order
RowOrder(rws) == [k \in 1..Cardinality(DOMAIN rws) |-> k - 1]

\* first row of level -1, or None
TotalIdx(rws) ==
  IF \E r \in DOMAIN rws : rws[r].level = -1
  THEN CHOOSE r \in DOMAIN rws : rws[r].level = -1 /\ \A q \in DOMAIN rws : rws[q].level = -1 => r <= q
  ELSE NoneIdx

\* "if rd["level"] == 0 and rd["parent"] is None"
IsOrphanAnyLevel(rd) == rd.parent = NoneIdx
IsOrphan(rd) == rd.level = 0 /\ rd.parent = NoneIdx

\* rows the loop re-parents
Orphans(rws) == SelectSeq(RowOrder(rws), LAMBDA r : IsOrphan(rws[r]))

RECURSIVE AppendAll(_, _, _)
AppendAll(cm, p, cs) ==
  IF cs = <<>> THEN cm ELSE AppendAll(SetDefaultAppend(cm, p, Head(cs)), p, Tail(cs))

AttachTotal ==
  /\ pc = "attach"
  /\ LET total_idx == TotalIdx(rows) IN
       IF total_idx # NoneIdx
       THEN /\ rows' = [r \in DOMAIN rows |->
                          IF IsOrphan(rows[r])
                          THEN [rows[r] EXCEPT !.parent = total_idx] ELSE rows[r]]
            /\ children_map' = AppendAll(children_map, total_idx, Orphans(rows))
       ELSE UNCHANGED <<rows, children_map>>
  /\ imp' = [c |-> 1, idx |-> 1]
  /\ pc' = IF value_cols = <<>> THEN "write" ELSE "impute"
  /\ UNCHANGED <<df, last_seen, i, value_cols, missing_initial, total_fillable_cells,
                 iteration_count, cells_filled_so_far, log_entries, changed_any, cur,
                 child_cells_used, missing_final, run, out_records,
                 rows_list, country_name, block_data, final_records>>

\* ------------------------------------------------- top-down mean imputer
levels_order == <<-1, 0, 2, 3, 4>>

\* f"level{child['level']}_mean_imputation"
MeanMethod(level) ==
  CASE level = -1 -> "level-1_mean_imputation"
    [] level = 0 -> "level0_mean_imputation"
    [] level = 2 -> "level2_mean_imputation"
    [] level = 3 -> "level3_mean_imputation"
    [] level = 4 -> "level4_mean_imputation"

\* rows that impute_level puts in some group
InGroup(rws, r, parent_level, child_level) ==
  /\ rws[r].level = child_level
  /\ rws[r].parent # NoneIdx
  /\ rws[rws[r].parent].level = parent_level

\* groups[p], in row order
GroupOf(rws, p, parent_level, child_level) ==
  SelectSeq(RowOrder(rws), LAMBDA r : InGroup(rws, r, parent_level, child_level) /\ rws[r].parent = p)

\* keys of groups, in insertion order
RECURSIVE GroupKeys(_, _, _, _, _)
GroupKeys(rws, order, parent_level, child_level, keys) ==
  IF order = <<>> THEN keys
  ELSE LET r == Head(order)
           p == rws[r].parent
           seen == \E k \in 1..Len(keys) : keys[k] = p
       IN GroupKeys(rws, Tail(order), parent_level, child_level,
                    IF InGroup(rws, r, parent_level, child_level) /\ ~seen
                    THEN Append(keys, p) ELSE keys)

RECURSIVE KnownSum(_, _, _, _)
KnownSum(rws, children, col, acc) ==
  IF children = <<>> THEN acc
  ELSE LET val == rws[Head(children)].values[col] IN
       KnownSum(rws, Tail(children), col, IF IsMissing(val) THEN acc ELSE Add(acc, val))

\* (parent_val - known_sum) / len(missing_children)
ImputedValOverAll(parent_val, known_sum, n_missing) == DivBy(Sub(parent_val, known_sum), n_missing + 1)
ImputedVal(parent_val, known_sum, n_missing) == DivBy(Sub(parent_val, known_sum), n_missing)

MeanEntry(rd, col, parent_idx, parent_val, imputed_val) ==
  [filled_row_index |-> rd.index,
   filled_row_name |-> rd.name,
   filled_col_name |-> col,
   method |-> MeanMethod(rd.level),
   parent_used |-> CellRef(parent_idx, col, parent_val),
   imputed_value |-> imputed_val]

\* "for child in missing_children": write the value, append the entry
RECURSIVE WriteImputed(_, _, _, _, _, _)
WriteImputed(st, missing_children, col, parent_idx, parent_val, imputed_val) ==
  IF missing_children = <<>> THEN st
  ELSE LET c == Head(missing_children) IN
       WriteImputed([rows |-> [st.rows EXCEPT ![c].values[col] = imputed_val],
                     log |-> Append(st.log, MeanEntry(st.rows[c], col, parent_idx, parent_val, imputed_val))],
                    Tail(missing_children), col, parent_idx, parent_val, imputed_val)

\* body of "for parent_idx, children in groups.items()"
ImputeGroupAllChildren(st, parent_idx, children, col) ==
  LET parent_val == st.rows[parent_idx].values[col]
      known_sum == KnownSum(st.rows, children, col, Num(0))
  IN IF IsMissing(parent_val) THEN st
     ELSE WriteImputed(st, children, col, parent_idx, parent_val,
                       ImputedVal(parent_val, known_sum, Len(children)))
ImputeGroup(st, parent_idx, children, col) ==
  LET parent_val == st.rows[parent_idx].values[col]
      missing_children == SelectSeq(children, LAMBDA c : IsMissing(st.rows[c].values[col]))
      known_sum == KnownSum(st.rows, children, col, Num(0))
  IN IF IsMissing(parent_val) THEN st
     ELSE IF missing_children # <<>>
     THEN WriteImputed(st, missing_children, col, parent_idx, parent_val,
                       ImputedVal(parent_val, known_sum, Len(missing_children)))
     ELSE st

RECURSIVE ImputeGroups(_, _, _, _, _)
ImputeGroups(st, keys, parent_level, child_level, col) ==
  IF keys = <<>> THEN st
  ELSE ImputeGroups(ImputeGroup(st, Head(keys),
                                GroupOf(st.rows, Head(keys), parent_level, child_level), col),
                    Tail(keys), parent_level, child_level, col)

impute_level(st, parent_level, child_level, col) ==
  ImputeGroups(st, GroupKeys(st.rows, RowOrder(st.rows), parent_level, child_level, <<>>),
               parent_level, child_level, col)

\* parent_level and child_level of the driver loop at position idx (1-based)
LevelPairBottomUp(idx) ==
  [parent_level |-> levels_order[Len(levels_order) - idx],
   child_level |-> levels_order[Len(levels_order) - idx + 1]]
LevelPair(idx) ==
  [parent_level |-> levels_order[idx], child_level |-> levels_order[idx + 1]]

\* one call of impute_level from the driver loop
ImputeStep ==
  /\ pc = "impute"
  /\ LET res == impute_level([rows |-> rows, log |-> log_entries],
                             LevelPair(imp.idx).parent_level, LevelPair(imp.idx).child_level,
                             value_cols[imp.c])
     IN /\ rows' = res.rows
        /\ log_entries' = res.log
  /\ imp' = IF imp.idx < Len(levels_order) - 1 THEN [c |-> imp.c, idx |-> imp.idx + 1]
            ELSE [c |-> imp.c + 1, idx |-> 1]
  /\ pc' = IF imp.idx < Len(levels_order) - 1 \/ imp.c < Len(value_cols) THEN "impute" ELSE "write"
  /\ UNCHANGED <<df, last_seen, children_map, i, value_cols, missing_initial,
                 total_fillable_cells, iteration_count, cells_filled_so_far, changed_any, cur,
                 child_cells_used, missing_final, run, out_records,
                 rows_list, country_name, block_data, final_records>>

\* ------------------------------------------------ write back and final count
WriteBack ==
  /\ pc = "write"
  /\ df' = [df EXCEPT !.data = [r \in DOMAIN df.data |->
                                  [df.data[r] EXCEPT !.values = rows[r].values]]]
  /\ missing_final' = CountMissingCells(rows, value_cols)
  /\ pc' = "done"
  /\ UNCHANGED <<rows, last_seen, children_map, i, value_cols, missing_initial,
                 total_fillable_cells, iteration_count, cells_filled_so_far, log_entries,
                 changed_any, cur, child_cells_used, imp, run, out_records,
                 rows_list, country_name, block_data, final_records>>

Next == BuildRow \/ CountMissing \/ RoundStart \/ VisitCell \/ RoundEnd
        \/ AttachTotal \/ ImputeStep \/ WriteBack

Spec == Init /\ [][Next]_vars

\* ----------------------------------------- the fill loop executed once more
\* lines 142-224 run again on the rows and children_map the first run left
SecondRun ==
  /\ pc = "attach"
  /\ run = 1
  /\ run' = 2
  /\ iteration_count' = 0
  /\ cells_filled_so_far' = 0
  /\ log_entries' = <<>>
  /\ pc' = "round"
  /\ UNCHANGED <<df, rows, last_seen, children_map, i, value_cols, missing_initial,
                 total_fillable_cells, changed_any, cur, child_cells_used, imp, missing_final,
                 out_records, rows_list, country_name, block_data, final_records>>

NextRerun == BuildRow \/ CountMissing \/ RoundStart \/ VisitCell \/ RoundEnd \/ SecondRun

SpecRerun == Init /\ [][NextRerun]_vars

\* ------------------------------------------ the script on one-row tables
\* whose label is any text built from Tokens: exercises parse_category
InitParse == IsParseTable(df) /\ InitState("build")

SpecParse == InitParse /\ [][Next]_vars

\* ------------------------------------------------------------- reformat.py
\* the hierarchy builder of reformat.py: the same loop, then the reformatting
R_BuildRow == BuildStep("r_build", "r_reformat")

\* "while row["parent"] is not None" of get_top_level_parent
RECURSIVE Climb(_, _)
Climb(index_to_row, row) ==
  IF row.parent # NoneIdx
  THEN LET up == index_to_row[row.parent] IN
       IF up.level = 0 THEN up.name ELSE Climb(index_to_row, up)
  ELSE row.name

get_top_level_parent(index_to_row, row) ==
  IF row.level = 0 THEN row.name ELSE Climb(index_to_row, row)

\* end of the match of ^\d{2}\s*SEP\s*\d{2}, 0 when there is none
MatchPairEnd(s, seps) ==
  IF Len(s) >= 2 /\ s[1] \in Digits /\ s[2] \in Digits
  THEN LET j == SkipWS(s, 3) IN
       IF j <= Len(s) /\ s[j] \in seps
       THEN LET k == SkipWS(s, j + 1) IN
            IF k + 1 <= Len(s) /\ s[k] \in Digits /\ s[k+1] \in Digits THEN k + 1 ELSE 0
       ELSE 0
  ELSE 0

\* the two groups (head)(.*) of a match that ends at position n, both stripped
SplitAt(text, n) ==
  [code |-> Strip(SubSeq(text, 1, n)), name |-> Strip(SubSeq(text, n + 1, Len(text)))]

parse_sector_code_and_name(category_text) ==
  LET text == Strip(category_text)
      m_hyphen == MatchPairEnd(text, {"-"})
      m_y == MatchPairEnd(text, {"y", "Y"})
      L == DigitRunLen(text)
  IN IF m_hyphen > 0 THEN SplitAt(text, m_hyphen)
     ELSE IF m_y > 0 THEN SplitAt(text, m_y)
     ELSE IF L >= 1 THEN SplitAt(text, IF L < 4 THEN L ELSE 4)
     ELSE [code |-> <<>>, name |-> text]

\* the text of a column name
ColChars(col) ==
  CASE col = Col1 -> <<"2", "0", "1", "9">>
    [] col = Col2 -> <<"2", "0", "2", "0">>

AllDigits(s) == \A k \in 1..Len(s) : s[k] \in Digits
FDI == <<"F", "D", "I", "_">>

convert_numeric_col_name(col) ==
  LET k == SkipWS(col, 6) IN
  IF Len(col) >= 6 /\ AllDigits(SubSeq(col, 1, 4)) /\ col[5] = "_" /\ AllDigits(SubSeq(col, 6, Len(col)))
  THEN FDI \o SubSeq(col, 1, 4) \o <<"Q">> \o SubSeq(col, 6, Len(col))
  ELSE IF /\ Len(col) >= 9
          /\ Upper(SubSeq(col, 1, 5)) = <<"T", "O", "T", "A", "L">>
          /\ k + 3 = Len(col)
          /\ AllDigits(SubSeq(col, k, Len(col)))
  THEN FDI \o SubSeq(col, k, Len(col))
  ELSE col

\* body of "for rd in rows" of reformat_fdi_data
ReformatRow ==
  /\ pc = "r_reformat"
  /\ LET rd == rows[Len(out_records)]
         numeric_cols == DropCategory(df.columns)
         country == get_top_level_parent(rows, rd)
         sector == IF rd.level = 0 THEN [code |-> <<>>, name |-> <<>>]
                   ELSE parse_sector_code_and_name(rd.name)
         record == [country |-> country,
                    sector_code |-> sector.code,
                    sector_name |-> sector.name,
                    values |-> [k \in 1..Len(numeric_cols) |->
                                  [col |-> convert_numeric_col_name(ColChars(numeric_cols[k])),
                                   val |-> rd.values[numeric_cols[k]]]]]
     IN out_records' = Append(out_records, record)
  /\ pc' = IF Len(out_records) + 1 < NumRows THEN "r_reformat" ELSE "r_done"
  /\ UNCHANGED <<df, rows, last_seen, children_map, i, value_cols, missing_initial,
                 total_fillable_cells, iteration_count, cells_filled_so_far, log_entries,
                 changed_any, cur, child_cells_used, imp, missing_final, run,
                 rows_list, country_name, block_data, final_records>>

InitReformat == (IsTable(df) \/ IsBlockTable(df)) /\ InitState("r_build")

NextReformat == R_BuildRow \/ ReformatRow

SpecReformat == InitReformat /\ [][NextReformat]_vars

\* either script started on a table
InitBoth == Init \/ InitReformat

NextBoth == Next \/ NextReformat

SpecBoth == InitBoth /\ [][NextBoth]_vars

\* ------------------------------------------------- Reformat_inversion.py
\* "kw in text"
Contains(text, kw) ==
  \E a \in 1..(Len(text) - Len(kw) + 1) : SubSeq(text, a, a + Len(kw) - 1) = kw

NUEVAS == <<"N", "U", "E", "V", "A", "S">>
REINVERS == <<"R", "E", "I", "N", "V", "E", "R", "S">>
CUENTAS == <<"C", "U", "E", "N", "T", "A", "S">>

is_level1_item(cat_text) ==
  LET cat_up == Upper(cat_text)
  IN Contains(cat_up, NUEVAS) \/ Contains(cat_up, REINVERS) \/ Contains(cat_up, CUENTAS)

\* the dict in insertion order
prefix_map == <<[kw |-> NUEVAS, pref |-> "N_"],
                [kw |-> REINVERS, pref |-> "V_"],
                [kw |-> CUENTAS, pref |-> "C_"]>>
Prefixes == {prefix_map[k].pref : k \in 1..Len(prefix_map)}
NoPrefix == "None"

\* "for kw, pref in prefix_map.items(): if kw in cat_up: chosen_prefix = pref; break"
chosen_prefix_last(cat_up) ==
  LET hits == {k \in 1..Len(prefix_map) : Contains(cat_up, prefix_map[k].kw)}
  IN IF hits = {} THEN NoPrefix
     ELSE prefix_map[CHOOSE k \in hits : \A h \in hits : h <= k].pref
chosen_prefix(cat_up) ==
  LET hits == {k \in 1..Len(prefix_map) : Contains(cat_up, prefix_map[k].kw)}
  IN IF hits = {} THEN NoPrefix
     ELSE prefix_map[CHOOSE k \in hits : \A h \in hits : k <= h].pref

\* the first column of the sheet: countries, an empty cell, and data lines
T_Mex == <<"M", "e", "x">>
T_USA == <<" ", "U", "S", "A", " ">>
T_Empty == <<>>
T_Nuevas == <<"N", "u", "e", "v", "a", "s", " ", "i", "n", "v">>
T_Reinv == <<" ", "r", "e", "i", "n", "v", "e", "r", "s", ".">>
T_Cuentas == <<"C", "u", "e", "n", "t", "a", "s">>
T_CuentasNuevas == <<"C", "u", "e", "n", "t", "a", "s", " ", "n", "u", "e", "v", "a", "s">>
InvTexts == {T_Mex, T_USA, T_Empty, T_Nuevas, T_Reinv, T_Cuentas, T_CuentasNuevas}

\* the flattened column names and the cells of sheet row k
InvCol1 == "1999Q1"
InvCol2 == "1999"
InvVals(k) == (InvCol1 :> Num(k)) @@ (InvCol2 :> IF k % 2 = 0 THEN NaN ELSE Num(k))
IsInvTable(t) ==
  \E n \in 0..MaxInvRows : \E ls \in [1..n -> InvTexts] :
    t = MkTable(<<InvCol1, InvCol2>>, ls, [k \in 1..n |-> InvVals(k)])

\* dict.get(coln, None)
NoneCell == [t |-> "none", s |-> <<>>, n |-> 0, d |-> 1]
Get(d, coln) == IF coln \in DOMAIN d THEN d[coln] ELSE NoneCell

\* one iteration of "for row_cells in ws.iter_rows(min_row=3, max_col=1)"
ClassifyRow ==
  /\ pc = "v_read"
  /\ Len(rows_list) < NumRows
  /\ LET value == df.data[Len(rows_list)].Category
         text == IF value # <<>> THEN Strip(value) ELSE <<>>
         lvl == IF is_level1_item(text) THEN 1 ELSE 0
     IN rows_list' = Append(rows_list, [category |-> text, level |-> lvl])
  /\ UNCHANGED <<df, rows, last_seen, children_map, i, value_cols, missing_initial,
                 total_fillable_cells, iteration_count, cells_filled_so_far, log_entries,
                 changed_any, cur, child_cells_used, imp, missing_final, pc, run, out_records,
                 country_name, block_data, final_records>>

\* "final_records = []; nrows = len(df); i = 0"
nrows == NumRows
StartLoop ==
  /\ pc = "v_read"
  /\ Len(rows_list) = NumRows
  /\ final_records' = <<>>
  /\ i' = 0
  /\ pc' = "v_outer"
  /\ UNCHANGED <<df, rows, last_seen, children_map, value_cols, missing_initial,
                 total_fillable_cells, iteration_count, cells_filled_so_far, log_entries,
                 changed_any, cur, child_cells_used, imp, missing_final, run, out_records,
                 rows_list, country_name, block_data>>

\* rows_list[i] of the script (the list is 0-based)
RowAt(k) == rows_list[k + 1]

\* "if rows_list[i]["level"] != 0: i+=1; continue"
SkipRow ==
  /\ pc = "v_outer"
  /\ i < nrows
  /\ RowAt(i).level # 0
  /\ i' = i + 1
  /\ UNCHANGED <<df, rows, last_seen, children_map, value_cols, missing_initial,
                 total_fillable_cells, iteration_count, cells_filled_so_far, log_entries,
                 changed_any, cur, child_cells_used, imp, missing_final, pc, run, out_records,
                 rows_list, country_name, block_data, final_records>>

\* a level-0 row opens a block
StartBlock ==
  /\ pc = "v_outer"
  /\ i < nrows
  /\ RowAt(i).level = 0
  /\ country_name' = RowAt(i).category
  /\ block_data' = [p \in Prefixes |-> EmptyMap]
  /\ i' = i + 1
  /\ pc' = "v_inner"
  /\ UNCHANGED <<df, rows, last_seen, children_map, value_cols, missing_initial,
                 total_fillable_cells, iteration_count, cells_filled_so_far, log_entries,
                 changed_any, cur, child_cells_used, imp, missing_final, run, out_records,
                 rows_list, final_records>>

\* "for coln, val in row_dict.items(): block_data[chosen_prefix][coln] = val"
StoreRow(d, row_dict) ==
  [coln \in (DOMAIN d) \cup (DOMAIN row_dict) |->
     IF coln \in DOMAIN row_dict THEN row_dict[coln] ELSE d[coln]]

\* body of "while i<nrows and rows_list[i]["level"] == 1"
GatherRow ==
  /\ pc = "v_inner"
  /\ i < nrows
  /\ RowAt(i).level = 1
  /\ LET cat_up == Upper(RowAt(i).category)
         chosen == chosen_prefix(cat_up)
     IN block_data' = IF chosen = NoPrefix THEN block_data
                      ELSE [block_data EXCEPT ![chosen] = StoreRow(@, df.data[i].values)]
  /\ i' = i + 1
  /\ UNCHANGED <<df, rows, last_seen, children_map, value_cols, missing_initial,
                 total_fillable_cells, iteration_count, cells_filled_so_far, log_entries,
                 changed_any, cur, child_cells_used, imp, missing_final, pc, run, out_records,
                 rows_list, country_name, final_records>>

\* the inner loop is over: build rec and append it
EmitRecord ==
  /\ pc = "v_inner"
  /\ ~(i < nrows /\ RowAt(i).level = 1)
  /\ LET allcols == DropCategory(df.columns)
         rec == [Country |-> country_name,
                 cells |-> [x \in Prefixes \X {allcols[k] : k \in 1..Len(allcols)} |->
                             Get(block_data[x[1]], x[2])]]
     IN final_records' = Append(final_records, rec)
  /\ pc' = "v_outer"
  /\ UNCHANGED <<df, rows, last_seen, children_map, i, value_cols, missing_initial,
                 total_fillable_cells, iteration_count, cells_filled_so_far, log_entries,
                 changed_any, cur, child_cells_used, imp, missing_final, run, out_records,
                 rows_list, country_name, block_data>>

\* "while i < nrows" is false
LoopEnd ==
  /\ pc = "v_outer"
  /\ i >= nrows
  /\ pc' = "v_done"
  /\ UNCHANGED <<df, rows, last_seen, children_map, i, value_cols, missing_initial,
                 total_fillable_cells, iteration_count, cells_filled_so_far, log_entries,
                 changed_any, cur, child_cells_used, imp, missing_final, run, out_records,
                 rows_list, country_name, block_data, final_records>>

InitInversion == IsInvTable(df) /\ InitState("v_read")

NextInversion == ClassifyRow \/ StartLoop \/ SkipRow \/ StartBlock \/ GatherRow \/ EmitRecord
                 \/ LoopEnd

SpecInversion == InitInversion /\ [][NextInversion]_vars

\* ================================================================ properties
Cell(rws, r, col) == rws[r].values[col]
Known(rws, r, col) == ~IsMissing(Cell(rws, r, col))
ColSet == {value_cols[c] : c \in 1..Len(value_cols)}
SeqSet(sq) == {sq[k] : k \in 1..Len(sq)}
Entries(m) == {k \in 1..Len(log_entries) : log_entries[k].method = m}

RECURSIVE SumOfCells(_, _, _)
SumOfCells(rws, S, col) ==
  IF S = {} THEN Num(0)
  ELSE LET r == CHOOSE x \in S : TRUE IN Add(Cell(rws, r, col), SumOfCells(rws, S \ {r}, col))

RECURSIVE SumOfRefs(_)
SumOfRefs(refs) == IF refs = <<>> THEN Num(0) ELSE Add(Head(refs).val, SumOfRefs(Tail(refs)))

\* the loop of the Fill Engine has ended and nothing after it has run yet
LoopEnded == pc = "attach" /\ run = 1
InFillLoop == pc \in {"round", "visit", "round_end", "attach"}

\* the family of parent p (p and its children) is fully known in col and balanced
FamilyKnown(p, col) ==
  /\ Known(rows, p, col)
  /\ \A c \in SeqSet(ChildrenOf(children_map, p)) : Known(rows, c, col)
Balanced(p, col) == Cell(rows, p, col) = SumOfCells(rows, SeqSet(ChildrenOf(children_map, p)), col)

\* C1: the run never aborts: no fill raises, whatever the input table.
C1_NeverAborts == pc # "aborted"

FillFamily(e) ==
  IF e.method = "sum_of_children" THEN e.filled_row_index ELSE rows[e.filled_row_index].parent

SiblingRefs(r, col) ==
  LET sibs == SelectSeq(children_map[rows[r].parent], LAMBDA x : x # r)
  IN [k \in 1..Len(sibs) |-> CellRef(sibs[k], col, Cell(rows, sibs[k], col))]

\* C3: while the fill loop runs, every parent_minus_siblings entry names the
\* parent cell and exactly the sibling cells Rule B consumed, and its value is
\* the parent value minus the sum of the listed sibling values.
C3_DiffEntriesListSiblings ==
  InFillLoop =>
    \A k \in Entries("parent_minus_siblings") :
      LET e == log_entries[k]
          r == e.filled_row_index
          col == e.filled_col_name
      IN /\ e.parent_cell_used = CellRef(rows[r].parent, col, Cell(rows, rows[r].parent, col))
         /\ e.cells_used = SiblingRefs(r, col)
         /\ e.computed_value = Sub(e.parent_cell_used.val, SumOfRefs(e.cells_used))

\* C4: every step that appends a sum_of_children entry lists all children of
\* the filled row, in order, each with the known value it has at that moment,
\* and the computed value (also the value written) is the sum of those values.
C4_SumEntriesListChildren ==
  [][\A k \in (Len(log_entries) + 1)..Len(log_entries') :
       log_entries'[k].method = "sum_of_children" =>
         LET e == log_entries'[k]
             r == e.filled_row_index
             col == e.filled_col_name
             kids == ChildrenOf(children_map, r)
         IN /\ kids # <<>>
            /\ IsMissing(Cell(rows, r, col))
            /\ Len(e.cells_used) = Len(kids)
            /\ \A j \in 1..Len(kids) :
                 /\ Known(rows, kids[j], col)
                 /\ e.cells_used[j] = CellRef(kids[j], col, Cell(rows, kids[j], col))
            /\ e.computed_value = SumOfRefs(e.cells_used)
            /\ Cell(rows', r, col) = e.computed_value]_vars

\* witness: a sum_of_children entry that lists two children
C4_Witness ==
  \E k \in Entries("sum_of_children") : Len(log_entries[k].cells_used) >= 2

\* C5: a second execution of the fill loop on what the first left makes no
\* fill: it never sets changed_any, appends no entry, and stops after round 1.
C5_SecondRunFillsNothing ==
  run = 2 =>
    /\ pc # "aborted"
    /\ pc \in {"visit", "round_end", "attach"} => ~changed_any
    /\ log_entries = <<>>
    /\ cells_filled_so_far = 0
    /\ iteration_count <= 1

\* witness: the second run finished its round after a first run that filled a cell
C5_Witness ==
  /\ run = 2
  /\ pc = "attach"
  /\ iteration_count = 1
  /\ \E r \in DOMAIN rows : \E col \in ColSet :
       IsMissing(df.data[r].values[col]) /\ Known(rows, r, col)

\* the input is the end-to-end scenario (coded labels / labels without a code)
Labels == [r \in 1..NumRows |-> df.data[r - 1].Category]
IsScenarioCoded == Labels = <<L_TOTAL, L_10, L_20, L_30>>
IsScenarioPlain == Labels = <<L_TOTAL, L_Agr, L_Ind, L_Ser>>
IsMean(e) == "parent_used" \in DOMAIN e
MeanEntries == {k \in 1..Len(log_entries) : IsMean(log_entries[k])}

\* C6 (as stated): on "TOTAL"=1000, "10 Agricultura"=missing, "20 Industria"=400,
\* "30 Servicios"=missing, Rule B fills neither missing cell and the imputer
\* sets both to 300.
C6_ScenarioImputes300 ==
  (IsScenarioCoded /\ pc = "done") =>
    /\ Entries("parent_minus_siblings") = {}
    /\ df.data[1].values[Col1] = Num(300)
    /\ df.data[3].values[Col1] = Num(300)

\* C6 (amended): on that input Rule B fills neither missing cell, the three
\* coded rows are level 2 and parentless, nothing is logged and both cells are
\* still missing in the output; with the labels "Agr", "Ind", "Ser" (no code)
\* in their place the rows are level-0 children of TOTAL, Rule B fills neither
\* missing cell and the imputer sets both to 300.
C6_ScenarioOutcome ==
  /\ IsScenarioCoded =>
       /\ Entries("parent_minus_siblings") = {}
       /\ pc = "done" =>
            /\ \A r \in 1..3 : rows[r].level = 2 /\ rows[r].parent = NoneIdx
            /\ log_entries = <<>>
            /\ IsMissing(df.data[1].values[Col1])
            /\ IsMissing(df.data[3].values[Col1])
            /\ df.data[2].values[Col1] = Num(400)
            /\ missing_final = 2
  /\ IsScenarioPlain =>
       /\ Entries("parent_minus_siblings") = {}
       /\ pc = "done" =>
            /\ \A r \in 1..3 : rows[r].level = 0 /\ rows[r].parent = 0
            /\ df.data[1].values[Col1] = Num(300)
            /\ df.data[3].values[Col1] = Num(300)
            /\ {log_entries[k].filled_row_index : k \in MeanEntries} = {1, 3}
            /\ missing_final = 0

\* witness: the run on the coded scenario reached its end
C6_Witness == IsScenarioCoded /\ pc = "done" /\ missing_final = 2

C8_HierarchyFrozenFromFirstRound ==
  [][pc \notin {"build", "count"} =>
       /\ children_map' = children_map
       /\ \A r \in DOMAIN rows : rows'[r].parent = rows[r].parent]_vars

\* most recent row of a level before row j
MostRecent(j, level) ==
  LET S == {k \in DOMAIN rows : k < j /\ rows[k].level = level}
  IN IF S = {} THEN NoneIdx ELSE CHOOSE k \in S : \A h \in S : h <= k
IsPrefixOf(pre, t) == Len(pre) <= Len(t) /\ \A k \in 1..Len(pre) : pre[k] = t[k]

\* C9: a level-3 row's parent is the most recent level-2 row if that row has a
\* non-empty special range containing the first two digits of the code, or has
\* no special range and a code that is a prefix of the code; a level-4 row's
\* parent is the most recent level-3 row if its code is a prefix of the code;
\* in every other case the row has no parent.
C9_DeepLevelsAttachToMostRecent ==
  \A j \in DOMAIN rows :
    /\ rows[j].level = 3 =>
         LET m == MostRecent(j, 2) IN
           rows[j].parent =
             IF /\ m # NoneIdx
                /\ \/ /\ rows[m].special_range.codes # {}
                      /\ SubSeq(rows[j].code, 1, 2) \in rows[m].special_range.codes
                   \/ /\ rows[m].special_range.none
                      /\ rows[m].code # <<>>
                      /\ IsPrefixOf(rows[m].code, rows[j].code)
             THEN m ELSE NoneIdx
    /\ rows[j].level = 4 =>
         LET m == MostRecent(j, 3) IN
           rows[j].parent =
             IF m # NoneIdx /\ IsPrefixOf(rows[m].code, rows[j].code) THEN m ELSE NoneIdx

\* witness: a level-3 row attached under a special-range row, with a level-4
\* row attached under it
C9_Witness ==
  \E j \in DOMAIN rows :
    /\ rows[j].level = 3 /\ rows[j].parent # NoneIdx
    /\ rows[rows[j].parent].special_range.codes # {}
    /\ \E h \in DOMAIN rows : rows[h].level = 4 /\ rows[h].parent = j

\* C10: every list of the parent->children index is in strictly increasing
\* row index (input order, no duplicates), at every point of the run.
C10_ChildrenInInputOrder ==
  \A p \in DOMAIN children_map :
    \A a, b \in 1..Len(children_map[p]) : a < b => children_map[p][a] < children_map[p][b]

\* ------------------------------------------------- parse_category properties
\* the label of row r as read from the sheet, and the text after trimming
Blank == {" ", "\t", "\n"}
RECURSIVE LTrim(_)
LTrim(s) == IF s # <<>> /\ Head(s) \in Blank THEN LTrim(Tail(s)) ELSE s
RECURSIVE RTrim(_)
RTrim(s) == IF s # <<>> /\ s[Len(s)] \in Blank THEN RTrim(SubSeq(s, 1, Len(s) - 1)) ELSE s
Trimmed(s) == RTrim(LTrim(s))
LabelOf(r) == df.data[r].Category

DigitStr == <<"0", "1", "2", "3", "4", "5", "6", "7", "8", "9">>
IsDigitCh(c) == \E n \in 1..10 : DigitStr[n] = c
DigitOf(c) == (CHOOSE n \in 1..10 : DigitStr[n] = c) - 1
TwoDigitVal(t) == 10 * DigitOf(t[1]) + DigitOf(t[2])
AllTwoDigit == {<<DigitStr[a], DigitStr[b]>> : a, b \in 1..10}
Letters == {"T", "O", "A", "L", "Y", "X", "C", "t", "o", "a", "l", "y", "x", "c"}
IsLetterCh(c) == c \in Letters

\* s is the word TOTAL in some letter case
AnyCaseTotal(s) ==
  /\ Len(s) = 5
  /\ s[1] \in {"T", "t"} /\ s[2] \in {"O", "o"} /\ s[3] \in {"T", "t"}
  /\ s[4] \in {"A", "a"} /\ s[5] \in {"L", "l"}

\* s contains the word TOTAL (not inside a longer run of letters or digits)
ContainsTotalWord(s) ==
  \E a \in 1..(Len(s) - 4) :
    /\ AnyCaseTotal(SubSeq(s, a, a + 4))
    /\ a > 1 => ~(IsLetterCh(s[a - 1]) \/ IsDigitCh(s[a - 1]))
    /\ a + 5 <= Len(s) => ~(IsLetterCh(s[a + 5]) \/ IsDigitCh(s[a + 5]))

RECURSIVE LeadingRun(_)
LeadingRun(s) == IF s # <<>> /\ IsDigitCh(Head(s)) THEN 1 + LeadingRun(Tail(s)) ELSE 0

\* s = two digits, blanks, one of seps, blanks, two digits, then anything; k is
\* where the second pair starts
PairAt(s, seps, k) ==
  /\ Len(s) >= 2 /\ IsDigitCh(s[1]) /\ IsDigitCh(s[2])
  /\ k + 1 <= Len(s) /\ IsDigitCh(s[k]) /\ IsDigitCh(s[k + 1])
  /\ \E j \in 3..(k - 1) :
       /\ s[j] \in seps
       /\ \A h \in (3..(k - 1)) \ {j} : s[h] \in Blank
HyphenForm(s) == \E k \in 4..Len(s) : PairAt(s, {"-"}, k)
YForm(s) == \E k \in 4..Len(s) : PairAt(s, {"y", "Y"}, k)
SecondPair(s, seps) == LET k == CHOOSE k \in 4..Len(s) : PairAt(s, seps, k) IN SubSeq(s, k, k + 1)

\* C11 (as stated): every label that contains the word TOTAL, in any letter
\* case and with any text around it, parses to level -1 without code or range.
C11_ContainsTotalIsGrandTotal ==
  \A r \in DOMAIN rows :
    ContainsTotalWord(LabelOf(r)) =>
      rows[r].level = -1 /\ rows[r].code = <<>> /\ rows[r].special_range.none

\* C11 (amended): a label parses to level -1 exactly when, after trimming
\* surrounding whitespace, it is the word TOTAL in some letter case; it then
\* has no code and no special range.
C11_TrimmedTotalIsGrandTotal ==
  \A r \in DOMAIN rows :
    /\ rows[r].level = -1 <=> AnyCaseTotal(Trimmed(LabelOf(r)))
    /\ rows[r].level = -1 => rows[r].code = <<>> /\ rows[r].special_range.none

\* witness: a mixed-case TOTAL between blanks was parsed to level -1
C11_Witness ==
  \E r \in DOMAIN rows :
    /\ rows[r].level = -1
    /\ Len(LabelOf(r)) = 7
    /\ LabelOf(r)[1] = " " /\ LabelOf(r)[7] = " " /\ LabelOf(r)[2] = "t"

\* C12: for a trimmed label that is not TOTAL and not in a range form, a
\* leading digit run of length 2 gives (2, run), of length 3 gives (3, run), of
\* length 4 or more gives (4, first four digits), and any other label gives
\* (0, no code); there is never a special range, and every level is one of
\* -1, 0, 2, 3, 4.
C12_DigitRunDecidesLevel ==
  \A r \in DOMAIN rows :
    LET s == Trimmed(LabelOf(r))
        L == LeadingRun(s)
    IN /\ rows[r].level \in {-1, 0, 2, 3, 4}
       /\ (~AnyCaseTotal(s) /\ ~HyphenForm(s) /\ ~YForm(s)) =>
            /\ rows[r].special_range.none
            /\ L = 2 => rows[r].level = 2 /\ rows[r].code = SubSeq(s, 1, 2)
            /\ L = 3 => rows[r].level = 3 /\ rows[r].code = SubSeq(s, 1, 3)
            /\ L >= 4 => rows[r].level = 4 /\ rows[r].code = SubSeq(s, 1, 4)
            /\ L <= 1 => rows[r].level = 0 /\ rows[r].code = <<>>

\* witness: a label with a leading run of five or more digits became level 4
C12_Witness ==
  \E r \in DOMAIN rows : LeadingRun(Trimmed(LabelOf(r))) >= 5 /\ rows[r].level = 4

\* C13: a trimmed label in the form "XX-YY" gives level 2, no code and the
\* special range of all two-digit texts from XX to YY inclusive; one in the form
\* "XX y YY" (either case) gives level 2, no code and the special range {XX, YY}.
C13_RangeForms ==
  \A r \in DOMAIN rows :
    LET s == Trimmed(LabelOf(r)) IN
      /\ HyphenForm(s) =>
           /\ rows[r].level = 2 /\ rows[r].code = <<>> /\ ~rows[r].special_range.none
           /\ rows[r].special_range.codes =
                {t \in AllTwoDigit : /\ TwoDigitVal(SubSeq(s, 1, 2)) <= TwoDigitVal(t)
                                     /\ TwoDigitVal(t) <= TwoDigitVal(SecondPair(s, {"-"}))}
      /\ YForm(s) =>
           /\ rows[r].level = 2 /\ rows[r].code = <<>> /\ ~rows[r].special_range.none
           /\ rows[r].special_range.codes = {SubSeq(s, 1, 2), SecondPair(s, {"y", "Y"})}

\* witness: a hyphen range with a blank inside that spans three codes
C13_Witness ==
  \E r \in DOMAIN rows :
    /\ HyphenForm(Trimmed(LabelOf(r)))
    /\ \E h \in 3..5 : Trimmed(LabelOf(r))[h] = " "
    /\ Cardinality(rows[r].special_range.codes) = 3

\* ----------------------------------------------------- cells and the rules
\* a cell holds a number (every other cell content of the tables is a gap)
KnownCell(v) == v.t = "num"
Kids(r) == SeqSet(ChildrenOf(children_map, r))
Targeted(r, col) ==
  \E k \in 1..Len(log_entries) :
    log_entries[k].filled_row_index = r /\ log_entries[k].filled_col_name = col
Appended(m) ==
  /\ Len(log_entries') = Len(log_entries) + 1
  /\ log_entries'[Len(log_entries')].method = m

\* C14: a missing input cell that no rule and no imputation ever filled is
\* missing in the written table and counted in missing_final; a visit of a
\* missing cell of a row without children never logs a sum_of_children fill;
\* a missing cell of a row with neither parent nor children is missing in the
\* written table.
C14_UnfilledStaysMissing ==
  [][/\ (pc = "write" /\ pc' = "done") =>
          /\ \A r \in DOMAIN rows : \A col \in ColSet :
               /\ (~KnownCell(df.data[r].values[col]) /\ ~Targeted(r, col))
                    => ~KnownCell(df'.data[r].values[col])
               /\ (~KnownCell(df.data[r].values[col]) /\ rows[r].parent = NoneIdx /\ Kids(r) = {})
                    => ~KnownCell(df'.data[r].values[col])
          /\ missing_final' = Cardinality({rc \in (DOMAIN rows) \X ColSet :
                                             ~KnownCell(df'.data[rc[1]].values[rc[2]])})
     /\ (pc = "visit" /\ Kids(cur.r) = {} /\ ~KnownCell(Cell(rows, cur.r, value_cols[cur.c])))
          => /\ ~Appended("sum_of_children")
             /\ \/ ~KnownCell(Cell(rows', cur.r, value_cols[cur.c]))
                \/ Appended("parent_minus_siblings")
                \/ pc' = "aborted"
    ]_vars

\* witness: the run ended with a fill in its log and with a missing cell of a
\* row that has neither parent nor children, counted as missing
C14_Witness ==
  /\ pc = "done"
  /\ log_entries # <<>>
  /\ missing_final >= 1
  /\ \E r \in DOMAIN rows : \E col \in ColSet :
       rows[r].parent = NoneIdx /\ Kids(r) = {} /\ ~KnownCell(df.data[r].values[col])

\* the two rules as the specification states them, for the cell under the cursor
AllKidsKnown(r, col) == Kids(r) # {} /\ \A c \in Kids(r) : KnownCell(Cell(rows, c, col))
OtherSiblings(r) == Kids(rows[r].parent) \ {r}
RuleBApplicable(r, col) ==
  /\ rows[r].parent # NoneIdx
  /\ KnownCell(Cell(rows, rows[r].parent, col))
  /\ \A sb \in OtherSiblings(r) : KnownCell(Cell(rows, sb, col))

\* C18: when a missing cell is visited and all its children are known (whether
\* or not Rule B applies too) it becomes the sum of its children and the entry
\* appended has method sum_of_children; a parent_minus_siblings entry is
\* appended only for a row without children or with a missing child; one visit
\* appends at most one entry, counts at most one fill and changes no other cell.
C18_RuleAFirst ==
  [][(pc = "visit" /\ ~KnownCell(Cell(rows, cur.r, value_cols[cur.c]))) =>
       LET r == cur.r
           col == value_cols[cur.c]
       IN /\ AllKidsKnown(r, col) =>
               /\ Cell(rows', r, col) = SumOfCells(rows, Kids(r), col)
               /\ Appended("sum_of_children")
          /\ Appended("parent_minus_siblings") =>
               /\ ~AllKidsKnown(r, col)
               /\ RuleBApplicable(r, col)
          /\ Len(log_entries') <= Len(log_entries) + 1
          /\ cells_filled_so_far' <= cells_filled_so_far + 1
          /\ \A r2 \in DOMAIN rows : \A c2 \in ColSet :
               (r2 # r \/ c2 # col) => Cell(rows', r2, c2) = Cell(rows, r2, c2)
    ]_vars

\* witness: a cell was filled by sum_of_children although its parent and all
\* its other siblings are known and the difference would be another value
C18_Witness ==
  /\ pc = "visit"
  /\ \E k \in 1..Len(log_entries) :
       LET e == log_entries[k]
           r == e.filled_row_index
           col == e.filled_col_name
       IN /\ e.method = "sum_of_children"
          /\ RuleBApplicable(r, col)
          /\ Cell(rows, r, col) #
               Sub(Cell(rows, rows[r].parent, col), SumOfCells(rows, OtherSiblings(r), col))

\* ------------------------------------------------------- loop and counters
InLoop == pc \in {"round", "visit", "round_end"}
BeforeLoop == pc \in {"build", "count"}
GapCount(rws) == Cardinality({rc \in (DOMAIN rws) \X ColSet : ~KnownCell(Cell(rws, rc[1], rc[2]))})
RuleEntries == Entries("sum_of_children") \cup Entries("parent_minus_siblings")

\* C15: the loop of the Fill Engine is left only at the end of a round, either
\* a round that filled nothing or round max_iterations, with iteration_count
\* between 1 and max_iterations; every round but the last filled something.
C15_LoopExitsAtRoundEnd ==
  /\ (~BeforeLoop /\ ~InLoop) =>
       /\ iteration_count \in 1..max_iterations
       /\ ~changed_any \/ iteration_count = max_iterations
  /\ pc = "round" /\ iteration_count > 0 => changed_any /\ iteration_count < max_iterations

\* the same statement on the runs that do not abort
C15_LoopExitsAtRoundEndUnlessAborted == pc # "aborted" => C15_LoopExitsAtRoundEnd

\* C16: from the first round on, missing_initial - cells_filled_so_far is the
\* number of cells missing now (until imputation starts), cells_filled_so_far
\* is the number of sum_of_children and parent_minus_siblings entries, and at
\* the end missing_final is that difference minus the number of mean entries.
C16_CountersExact ==
  /\ (InFillLoop \/ pc = "aborted") =>
       /\ missing_initial - cells_filled_so_far = GapCount(rows)
       /\ cells_filled_so_far = Cardinality(RuleEntries)
  /\ pc = "done" =>
       /\ cells_filled_so_far = Cardinality(RuleEntries)
       /\ missing_final = (missing_initial - cells_filled_so_far)
                            - (Len(log_entries) - Cardinality(RuleEntries))

\* the same two statements on the runs that do not abort
C16_CountersExactUnlessAborted == pc # "aborted" => C16_CountersExact

\* ------------------------------------------------------ per-cell life cycle
NewEntries == {k \in (Len(log_entries) + 1)..Len(log_entries') : TRUE}
RuleMethods == {"sum_of_children", "parent_minus_siblings"}

\* C19: in every step a known cell keeps its value (in the working rows and in
\* the table written back); entries of Rules A and B are appended, and cells
\* filled, only by steps of the Fill Engine loop, entries of mean imputation
\* only by steps of the Top-Down pass, which starts after the loop and is
\* followed by no visit; no two log entries have the same (row, column) target
\* and no entry targets a cell that was known in the input.
C19_CellLifeCycle ==
  [][/\ \A r \in DOMAIN rows : \A col \in ColSet :
          /\ KnownCell(Cell(rows, r, col)) => Cell(rows', r, col) = Cell(rows, r, col)
          /\ KnownCell(df.data[r].values[col]) => df'.data[r].values[col] = df.data[r].values[col]
          /\ Cell(rows', r, col) # Cell(rows, r, col) => pc \in {"visit", "impute"}
     /\ \A k \in NewEntries :
          /\ log_entries'[k].method \in RuleMethods => pc = "visit"
          /\ log_entries'[k].method \notin RuleMethods => pc = "impute" /\ IsMean(log_entries'[k])
     /\ pc = "impute" => pc' \in {"impute", "write"}
     /\ pc \in {"write", "done"} => pc' = "done"
     /\ \A k1, k2 \in 1..Len(log_entries') :
          (/\ log_entries'[k1].filled_row_index = log_entries'[k2].filled_row_index
           /\ log_entries'[k1].filled_col_name = log_entries'[k2].filled_col_name) => k1 = k2
     /\ pc # "write" =>
          \A k \in 1..Len(log_entries') :
            ~KnownCell(df.data[log_entries'[k].filled_row_index].values[log_entries'[k].filled_col_name])
    ]_vars

\* witness: before the write-back, the log holds an entry of Rule A and an
\* entry of mean imputation, and some cell of the input was known
C19_Witness ==
  /\ pc = "write"
  /\ Entries("sum_of_children") # {}
  /\ MeanEntries # {}
  /\ \E r \in DOMAIN rows : \E col \in ColSet : KnownCell(df.data[r].values[col])

\* ------------------------------------------------------------ parent chains
\* the row reached from r by n parent links, NoneIdx when the chain is shorter
RECURSIVE AncestorAt(_, _)
AncestorAt(r, n) ==
  IF n = 0 THEN r
  ELSE LET a == AncestorAt(r, n - 1) IN IF a = NoneIdx THEN NoneIdx ELSE rows[a].parent
IsL0Ancestor(r, n) == AncestorAt(r, n) # NoneIdx /\ rows[AncestorAt(r, n)].level = 0
HasL0Ancestor(r) == \E n \in 1..NumRows : IsL0Ancestor(r, n)
NearestL0(r) ==
  AncestorAt(r, CHOOSE n \in 1..NumRows : IsL0Ancestor(r, n) /\ \A h \in 1..(n - 1) : ~IsL0Ancestor(r, h))

\* C17: the country of every record is the row's own name for a level-0 row,
\* the name of the nearest level-0 ancestor for a row that has one, and the
\* row's own name for a row whose parent chain holds no level-0 row.
C17_TopLevelParent ==
  \A k \in 1..Len(out_records) :
    LET r == k - 1 IN
      out_records[k].country =
        IF rows[r].level = 0 THEN rows[r].name
        ELSE IF HasL0Ancestor(r) THEN rows[NearestL0(r)].name
        ELSE rows[r].name

\* what the climb returns instead: without a level-0 row on the chain, the
\* name of the last row of the chain
RECURSIVE ChainRoot(_)
ChainRoot(r) == IF rows[r].parent = NoneIdx THEN r ELSE ChainRoot(rows[r].parent)
C17_TopLevelParentOrChainRoot ==
  \A k \in 1..Len(out_records) :
    LET r == k - 1 IN
      out_records[k].country =
        IF rows[r].level = 0 THEN rows[r].name
        ELSE IF HasL0Ancestor(r) THEN rows[NearestL0(r)].name
        ELSE rows[ChainRoot(r)].name

\* ------------------------------------------------------------- acyclicity
\* the level just above level in the order -1, 0, 2, 3, 4
LevelAbove(level) == CASE level = 0 -> -1 [] level = 2 -> 0 [] level = 3 -> 2 [] level = 4 -> 3
MaxLinks == Len(levels_order) - 1
RECURSIVE AncestorIn(_, _, _)
AncestorIn(rws, r, n) ==
  IF n = 0 THEN r
  ELSE LET a == AncestorIn(rws, r, n - 1) IN IF a = NoneIdx THEN NoneIdx ELSE rws[a].parent
\* the parent chain of r ends at a parentless row after at most MaxLinks links
ChainEnds(rws, r) ==
  \E n \in 0..MaxLinks : AncestorIn(rws, r, n) # NoneIdx /\ rws[AncestorIn(rws, r, n)].parent = NoneIdx

\* C20: a builder step links the new row only to an earlier row whose level is
\* the level just above; the retroactive attach changes only parentless level-0
\* rows, giving them a parentless level -1 row as parent; no other step changes
\* a parent; after every step level -1 rows are parentless and every parent
\* chain ends within four links, so the climb of get_top_level_parent ends.
C20_ParentsAcyclic ==
  [][/\ pc \in {"build", "r_build"} =>
          /\ \A r \in DOMAIN rows : rows'[r].parent = rows[r].parent
          /\ \A r \in (DOMAIN rows') \ (DOMAIN rows) :
               rows'[r].parent # NoneIdx =>
                 /\ rows'[r].parent \in DOMAIN rows
                 /\ rows'[r].parent < r
                 /\ rows'[r].level \in {0, 2, 3, 4}
                 /\ rows'[rows'[r].parent].level = LevelAbove(rows'[r].level)
     /\ pc = "attach" =>
          \A r \in DOMAIN rows :
            rows'[r].parent # rows[r].parent =>
              /\ rows[r].parent = NoneIdx /\ rows[r].level = 0
              /\ rows'[rows'[r].parent].level = -1
              /\ rows'[rows'[r].parent].parent = NoneIdx
     /\ pc \notin {"build", "r_build", "attach"} =>
          \A r \in DOMAIN rows : rows'[r].parent = rows[r].parent
     /\ \A r \in DOMAIN rows' :
          /\ rows'[r].level = -1 => rows'[r].parent = NoneIdx
          /\ ChainEnds(rows', r)
    ]_vars

\* witness: after the retroactive attach a level-0 row has a later row as
\* parent and a child of its own (a chain of two links that goes forward and
\* then backward in the document)
C20_Witness ==
  /\ pc \in {"impute", "write", "done"}
  /\ \E r, c \in DOMAIN rows :
       /\ rows[r].parent # NoneIdx /\ rows[r].parent > r
       /\ rows[c].parent = r

\* ------------------------------------------------------ imputation, top-down
\* C21: once the Top-Down Mean Imputer has run, in every column every row
\* that has a parent whose cell is known has a known cell itself, in the
\* working rows and in the table written back; so a cell still missing belongs
\* to a row without parent or with a parent whose cell is missing too.
C21_ImputationComplete ==
  /\ pc \in {"write", "done"} =>
       \A r \in DOMAIN rows : \A col \in ColSet :
         (rows[r].parent # NoneIdx /\ KnownCell(Cell(rows, rows[r].parent, col)))
           => KnownCell(Cell(rows, r, col))
  /\ pc = "done" =>
       \A r \in DOMAIN rows : \A col \in ColSet :
         ~KnownCell(df.data[r].values[col]) =>
           \/ rows[r].parent = NoneIdx
           \/ ~KnownCell(df.data[rows[r].parent].values[col])

\* witness: the table was written with a row whose cell was imputed from a
\* parent cell that was itself imputed at the level pair before
C21_Witness ==
  /\ pc = "done"
  /\ \E k1, k2 \in MeanEntries :
       /\ k1 < k2
       /\ log_entries[k1].filled_col_name = log_entries[k2].filled_col_name
       /\ rows[log_entries[k2].filled_row_index].parent = log_entries[k1].filled_row_index

\* -------------------------------------------------------- soundness of fills
\* children of p in the index cm, and those the builder loop put there (the
\* retroactive attach adds only rows that come before their parent)
KidsIn(cm, p) == IF p \in DOMAIN cm THEN SeqSet(cm[p]) ELSE {}
BuiltKids(cm, p) == {c \in KidsIn(cm, p) : c > p}
\* in rws, p and the rows of kids are known in col and p is their sum
SoundIn(rws, p, col, kids) ==
  /\ KnownCell(Cell(rws, p, col))
  /\ \A c \in kids : KnownCell(Cell(rws, c, col))
  /\ Cell(rws, p, col) = SumOfCells(rws, kids, col)

MaxRounds == (Len(levels_order) - 1) + (Len(levels_order) - 1)

\* C23: the loop of the Fill Engine is only ever left after a round that made
\* no fill, never at round max_iterations and after at most MaxRounds rounds,
\* and when it is left no missing cell has all its children known (Rule A) or
\* its parent and all its other siblings known (Rule B).
C23_CapNeverBinds ==
  /\ (~BeforeLoop /\ ~InLoop) =>
       /\ ~changed_any
       /\ iteration_count < max_iterations
       /\ iteration_count <= MaxRounds
  /\ pc \in {"attach", "aborted"} =>
       \A r \in DOMAIN rows : \A col \in ColSet :
         ~KnownCell(Cell(rows, r, col)) => ~AllKidsKnown(r, col) /\ ~RuleBApplicable(r, col)

\* the same statement on the runs that do not abort
C23_CapNeverBindsUnlessAborted == pc # "aborted" => C23_CapNeverBinds

\* ---------------------------------------------------------- document blocks
\* the most recent level-0 row before row r, NoneIdx when there is none
BlockHead(r) ==
  IF \E q \in DOMAIN rows : q < r /\ rows[q].level = 0
  THEN CHOOSE q \in DOMAIN rows :
         /\ q < r /\ rows[q].level = 0
         /\ \A h \in DOMAIN rows : (h < r /\ rows[h].level = 0) => h <= q
  ELSE NoneIdx

\* C24: for every row of level 2, 3 or 4 whose parent chain reaches a level-0
\* row, that row is the most recent level-0 row before it in the document, and
\* the country of its record is the name of that row.
C24_ChainsFollowBlocks ==
  \A r \in DOMAIN rows :
    (rows[r].level \in {2, 3, 4} /\ HasL0Ancestor(r)) =>
      /\ NearestL0(r) = BlockHead(r)
      /\ r + 1 <= Len(out_records) => out_records[r + 1].country = rows[BlockHead(r)].name

\* the same statement for the rows of level 2, which the builder attaches to
\* the last level-0 row directly
C24_Level2FollowsBlocks ==
  \A r \in DOMAIN rows :
    (rows[r].level = 2 /\ HasL0Ancestor(r)) =>
      /\ NearestL0(r) = BlockHead(r)
      /\ r + 1 <= Len(out_records) => out_records[r + 1].country = rows[BlockHead(r)].name

\* ------------------------------------------------------- grouping of blocks
\* text holds the keyword kw in some letter case
Holds(text, kw) ==
  \E a \in 0..(Len(text) - Len(kw)) : \A j \in 1..Len(kw) : UpperChar(text[a + j]) = kw[j]
\* the prefix of the first keyword, in the order of prefix_map, that row k holds
FirstKeywordPrefix(k) ==
  LET text == rows_list[k].category
  IN IF Holds(text, <<"N", "U", "E", "V", "A", "S">>) THEN "N_"
     ELSE IF Holds(text, <<"R", "E", "I", "N", "V", "E", "R", "S">>) THEN "V_"
     ELSE IF Holds(text, <<"C", "U", "E", "N", "T", "A", "S">>) THEN "C_"
     ELSE "no keyword"
\* positions (1-based) of the level-0 rows, and the nearest one before row k
Heads == {k \in 1..Len(rows_list) : rows_list[k].level = 0}
HeadBefore(k) ==
  IF \E h \in Heads : h < k
  THEN CHOOSE h \in Heads : h < k /\ \A g \in Heads : g < k => g <= h
  ELSE 0
Rank(h) == Cardinality({g \in Heads : g <= h})
\* level-1 rows that contribute to the record of head h under prefix p
Contributors(h, p) ==
  {k \in 1..Len(rows_list) :
     rows_list[k].level = 1 /\ HeadBefore(k) = h /\ FirstKeywordPrefix(k) = p}
Latest(S) == CHOOSE k \in S : \A j \in S : j <= k
RecordsRight ==
  /\ Len(final_records) = Cardinality(Heads)
  /\ \A h \in Heads :
       /\ final_records[Rank(h)].Country = rows_list[h].category
       /\ \A p \in {"N_", "V_", "C_"} : \A coln \in {InvCol1, InvCol2} :
            final_records[Rank(h)].cells[<<p, coln>>] =
              IF Contributors(h, p) = {} THEN NoneCell
              ELSE df.data[Latest(Contributors(h, p)) - 1].values[coln]
\* what is left to do in the loop: rows to consume, and the record to emit
LoopMeasure == 2 * (Len(rows_list) - i) + (IF pc = "v_inner" THEN 1 ELSE 0)

\* the script can take a step
CanStep == ENABLED NextInversion

\* C25: every step of the grouping loop lowers a non-negative measure and a
\* step is possible until the loop is over, so the loop terminates; when it is
\* over there is one record per level-0 row, in input order, whose cells under
\* each prefix are those of the last level-1 row of the block that holds the
\* prefix's keyword first (in the order NUEVAS, REINVERS, CUENTAS), and None
\* when the block has no such row; level-1 rows before the first level-0 row
\* are in no block.
C25_GroupingLoop ==
  [][(pc = "v_outer" \/ pc = "v_inner") =>
       /\ LoopMeasure' >= 0
       /\ pc' # "v_done" => LoopMeasure' < LoopMeasure
       /\ pc' = "v_done" => RecordsRight'
       /\ pc' \in {"v_outer", "v_inner"} => CanStep'
       /\ \A k \in 1..Len(rows_list) :
            rows_list[k].level = (IF FirstKeywordPrefix(k) = "no keyword" THEN 0 ELSE 1)
    ]_vars

\* witness: the loop is over on a sheet with a level-1 row before the first
\* level-0 row and with a block where two rows map to the same prefix, one of
\* them holding two keywords
C25_Witness ==
  /\ pc = "v_done"
  /\ \E k \in 1..Len(rows_list) : rows_list[k].level = 1 /\ HeadBefore(k) = 0
  /\ \E h \in Heads : \E k1, k2 \in Contributors(h, "N_") :
       k1 # k2 /\ Holds(rows_list[k2].category, <<"C", "U", "E", "N", "T", "A", "S">>)

====
